---- MODULE Spec2Model ----
(***************************************************************************)
(* Options price calculator (src/main.py): the Black-Scholes pricing       *)
(* functions, the Greeks, calculate_moneyness, validate_inputs,            *)
(* print_results and the interactive_mode loop.                            *)
(*                                                                         *)
(* Numbers.  The program computes with Python floats.  The model computes  *)
(* with fixed-point integers: the float x is the integer x * Scale,        *)
(* rounded.  The integers are kept within 32 bits, which limits Scale.     *)
(* log, sqrt, exp and the normal distribution are computed by series, to   *)
(* about three decimals.  Statements that compare two computed amounts     *)
(* therefore carry the tolerance Tol (in units of 1/Scale).                *)
(*                                                                         *)
(* Exceptions.  Every pricing function wraps its body in                   *)
(* try/except: return 0.0.  For a Python float x, x**2 raises              *)
(* OverflowError when the result leaves the double range (x > ~1.34e154);  *)
(* every pricing function evaluates sigma**2.  The model keeps this path:  *)
(* the range of the float square is scaled down to FloatSqrtMax.           *)
(***************************************************************************)
EXTENDS Integers, Sequences, FiniteSets, TLC

VARIABLES pc, loc, errors, out, last, args, ret, shown

vars == <<pc, loc, errors, out, last, args, ret, shown>>

cliVars == <<pc, loc, errors, out, last>>

engineVars == <<args, ret, shown>>

----------------------------------------------------------------------------
(* Fixed-point arithmetic                                                   *)

\* One unit of the float 1.0.
Scale == 1000

\* Tolerance of a comparison between two computed amounts, in 1/Scale.
Tol == 100

\* The largest float (in 1/Scale) whose square is still in the float range.
FloatSqrtMax == 100000

Abs(x) == IF x < 0 THEN -x ELSE x

Max(a, b) == IF a >= b THEN a ELSE b

Min(a, b) == IF a <= b THEN a ELSE b

\* The float n/d.
Fx(n, d) == (n * Scale) \div d

\* a * b, rounded to the nearest unit.
Mul(a, b) == (a * b + Scale \div 2) \div Scale

\* a / b for b > 0, rounded to the nearest unit.
Div(a, b) == (2 * a * Scale + b) \div (2 * b)

RECURSIVE SqrtIter(_, _)
SqrtIter(n, g) ==
    LET h == (g + n \div g) \div 2
    IN IF h >= g THEN g ELSE SqrtIter(n, h)

\* np.sqrt(x), x >= 0.
Sqrt(x) == IF x * Scale = 0 THEN 0 ELSE SqrtIter(x * Scale, x * Scale)

LnSeries(y) ==
    LET y2 == Mul(y, y)
        y3 == Mul(y2, y)
        y5 == Mul(y3, y2)
        y7 == Mul(y5, y2)
    IN 2 * (y + y3 \div 3 + y5 \div 5 + y7 \div 7)

RECURSIVE Ln(_)
\* np.log(x), x > 0: halve or double into [1, 2), then 2*atanh((x-1)/(x+1)).
Ln(x) ==
    IF x >= 2 * Scale THEN Ln((x + 1) \div 2) + Fx(6931, 10000)
    ELSE IF x < Scale THEN Ln(2 * x) - Fx(6931, 10000)
    ELSE LnSeries(Div(x - Scale, x + Scale))

ExpSeries(x) ==
    LET x2 == Mul(x, x)
        x3 == Mul(x2, x)
        x4 == Mul(x3, x)
    IN Scale + x + x2 \div 2 + x3 \div 6 + x4 \div 24

RECURSIVE Exp(_)
\* np.exp(x): exp(x) = exp(x/2)^2 until |x| <= 1/2, then the Taylor series.
Exp(x) ==
    IF Abs(x) > Scale \div 2
    THEN LET e == Exp(x \div 2) IN Mul(e, e)
    ELSE ExpSeries(x)

\* norm.pdf(d) = exp(-d^2/2) / sqrt(2 pi).
NormPdf(d) == Mul(Exp(-(Mul(d, d) \div 2)), Fx(3989, 10000))

\* norm.cdf(x) for x >= 0 (Abramowitz and Stegun 26.2.17).
CdfPos(x) ==
    LET t  == Div(Scale, Scale + Mul(Fx(2316, 10000), x))
        t2 == Mul(t, t)
        t3 == Mul(t2, t)
        t4 == Mul(t3, t)
        t5 == Mul(t4, t)
        poly == Mul(Fx(3194, 10000), t) - Mul(Fx(3566, 10000), t2)
                + Mul(Fx(17815, 10000), t3) - Mul(Fx(18213, 10000), t4)
                + Mul(Fx(13303, 10000), t5)
    IN Scale - Mul(NormPdf(x), poly)

\* norm.cdf(x): the two tails are computed from each other.
NormCdf(x) == IF x >= 0 THEN CdfPos(x) ELSE Scale - CdfPos(-x)

\* x**2 for a Python float: OverflowError outside the float range.
PowOverflows(x) == Abs(x) > FloatSqrtMax

Sq(x) == Mul(x, x)

----------------------------------------------------------------------------
(* Values a pricing function returns                                        *)

Float(v) == [kind |-> "float", value |-> v]

\* The outcome the specification asks for on a refused computation; no
\* function of src/main.py produces it.
InvalidInput == [kind |-> "InvalidInput", value |-> 0]

----------------------------------------------------------------------------
(* BLACK-SCHOLES CALCULATION FUNCTIONS                                      *)

\* S <= 0 or K <= 0 or T <= 0 or sigma <= 0
BadParams(S, K, T, sigma) == S <= 0 \/ K <= 0 \/ T <= 0 \/ sigma <= 0

\* The body of a pricing function raises: sigma**2 overflows.
Raises(sigma) == PowOverflows(sigma)

\* (np.log(S/K) + (r + 0.5*sigma**2)*T) / (sigma*np.sqrt(T))
D1(S, K, T, r, sigma) ==
    Div(Ln(Div(S, K)) + Mul(r + Sq(sigma) \div 2, T), Mul(sigma, Sqrt(T)))

\* d1 - sigma*np.sqrt(T)
D2(S, K, T, r, sigma) == D1(S, K, T, r, sigma) - Mul(sigma, Sqrt(T))

\* K*np.exp(-r*T)
Discounted(K, T, r) == Mul(K, Exp(-Mul(r, T)))

\* black_scholes_call with d1 and d2 exchanged.
black_scholes_call_swapped(S, K, T, r, sigma) ==
    IF BadParams(S, K, T, sigma) THEN Float(0)
    ELSE IF Raises(sigma) THEN Float(0)
    ELSE LET d1 == D1(S, K, T, r, sigma)
             d2 == D2(S, K, T, r, sigma)
             call_price == Mul(S, NormCdf(d2)) - Mul(Discounted(K, T, r), NormCdf(d1))
         IN Float(Max(0, call_price))

\* black_scholes_call returning call_price without max(0, call_price).
black_scholes_call_unclamped(S, K, T, r, sigma) ==
    IF BadParams(S, K, T, sigma) THEN Float(0)
    ELSE IF Raises(sigma) THEN Float(0)
    ELSE LET d1 == D1(S, K, T, r, sigma)
             d2 == D2(S, K, T, r, sigma)
             call_price == Mul(S, NormCdf(d1)) - Mul(Discounted(K, T, r), NormCdf(d2))
         IN Float(call_price)

black_scholes_call(S, K, T, r, sigma) ==
    IF BadParams(S, K, T, sigma) THEN Float(0)
    ELSE IF Raises(sigma) THEN Float(0)
    ELSE LET d1 == D1(S, K, T, r, sigma)
             d2 == D2(S, K, T, r, sigma)
             call_price == Mul(S, NormCdf(d1)) - Mul(Discounted(K, T, r), NormCdf(d2))
         IN Float(Max(0, call_price))

black_scholes_put(S, K, T, r, sigma) ==
    IF BadParams(S, K, T, sigma) THEN Float(0)
    ELSE IF Raises(sigma) THEN Float(0)
    ELSE LET d1 == D1(S, K, T, r, sigma)
             d2 == D2(S, K, T, r, sigma)
             put_price == Mul(Discounted(K, T, r), NormCdf(-d2)) - Mul(S, NormCdf(-d1))
         IN Float(Max(0, put_price))

calculate_delta(S, K, T, r, sigma, option_type) ==
    IF BadParams(S, K, T, sigma) THEN Float(0)
    ELSE IF Raises(sigma) THEN Float(0)
    ELSE LET d1 == D1(S, K, T, r, sigma)
         IN IF option_type = "call"
            THEN Float(NormCdf(d1))
            ELSE Float(NormCdf(d1) - Scale)

calculate_gamma(S, K, T, r, sigma) ==
    IF BadParams(S, K, T, sigma) THEN Float(0)
    ELSE IF Raises(sigma) THEN Float(0)
    ELSE LET d1 == D1(S, K, T, r, sigma)
         IN Float(Div(NormPdf(d1), Mul(Mul(S, sigma), Sqrt(T))))

calculate_theta(S, K, T, r, sigma, option_type) ==
    IF BadParams(S, K, T, sigma) THEN Float(0)
    ELSE IF Raises(sigma) THEN Float(0)
    ELSE LET d1 == D1(S, K, T, r, sigma)
             d2 == D2(S, K, T, r, sigma)
             decay == Div(Mul(Mul(-S, NormPdf(d1)), sigma), 2 * Sqrt(T))
         IN IF option_type = "call"
            THEN Float(decay - Mul(Mul(r, Discounted(K, T, r)), NormCdf(d2)))
            ELSE Float(decay + Mul(Mul(r, Discounted(K, T, r)), NormCdf(-d2)))

calculate_vega(S, K, T, r, sigma) ==
    IF BadParams(S, K, T, sigma) THEN Float(0)
    ELSE IF Raises(sigma) THEN Float(0)
    ELSE LET d1 == D1(S, K, T, r, sigma)
         IN Float(Mul(Mul(S, Sqrt(T)), NormPdf(d1)))

calculate_rho(S, K, T, r, sigma, option_type) ==
    IF BadParams(S, K, T, sigma) THEN Float(0)
    ELSE IF Raises(sigma) THEN Float(0)
    ELSE LET d2 == Div(Ln(Div(S, K)) + Mul(r - Sq(sigma) \div 2, T),
                       Mul(sigma, Sqrt(T)))
         IN IF option_type = "call"
            THEN Float(Mul(Mul(K, T), Mul(Exp(-Mul(r, T)), NormCdf(d2))))
            ELSE Float(-Mul(Mul(K, T), Mul(Exp(-Mul(r, T)), NormCdf(-d2))))

calculate_moneyness(S, K, option_type) ==
    IF S > K
    THEN IF option_type = "Call"
         THEN <<"In-the-Money", "ITM", <<"intrinsic value", S - K>>>>
         ELSE <<"Out-of-the-Money", "OTM", <<"No intrinsic value">>>>
    ELSE IF S < K
    THEN IF option_type = "Call"
         THEN <<"Out-of-the-Money", "OTM", <<"No intrinsic value">>>>
         ELSE <<"In-the-Money", "ITM", <<"intrinsic value", K - S>>>>
    ELSE <<"At-the-Money", "ATM", <<"Break-even point">>>>

----------------------------------------------------------------------------
(* UTILITY FUNCTIONS                                                        *)

\* validate_inputs without the check of the rate.
validate_inputs_no_rate(S, K, T, r, sigma) ==
    (IF S <= 0 THEN <<"Spot price must be positive">> ELSE <<>>)
    \o (IF K <= 0 THEN <<"Strike price must be positive">> ELSE <<>>)
    \o (IF T <= 0 THEN <<"Time to expiry must be positive">> ELSE <<>>)
    \o (IF sigma <= 0 THEN <<"Volatility must be positive">> ELSE <<>>)

validate_inputs(S, K, T, r, sigma) ==
    (IF S <= 0 THEN <<"Spot price must be positive">> ELSE <<>>)
    \o (IF K <= 0 THEN <<"Strike price must be positive">> ELSE <<>>)
    \o (IF T <= 0 THEN <<"Time to expiry must be positive">> ELSE <<>>)
    \o (IF sigma <= 0 THEN <<"Volatility must be positive">> ELSE <<>>)
    \o (IF r < 0 THEN <<"Risk-free rate cannot be negative">> ELSE <<>>)

\* print_results computing Gamma and Vega inside the branch of the side, the
\* put's with the sign of its Delta.
print_results_side_gamma(S, K, T, r, sigma, option_type) ==
    LET call_price == black_scholes_call(S, K, T, r, sigma).value
        put_price == black_scholes_put(S, K, T, r, sigma).value
        side == IF option_type = "call" THEN "call" ELSE "put"
        delta == calculate_delta(S, K, T, r, sigma, side).value
        theta == calculate_theta(S, K, T, r, sigma, side).value
        rho == calculate_rho(S, K, T, r, sigma, side).value
        option_price == IF option_type = "call" THEN call_price ELSE put_price
        gamma == IF option_type = "call"
                 THEN calculate_gamma(S, K, T, r, sigma).value
                 ELSE -calculate_gamma(S, K, T, r, sigma).value
        vega == IF option_type = "call"
                THEN calculate_vega(S, K, T, r, sigma).value
                ELSE -calculate_vega(S, K, T, r, sigma).value
        m == calculate_moneyness(S, K, option_type)
        intrinsic_value == IF option_type = "call" THEN Max(0, S - K) ELSE Max(0, K - S)
        time_value == option_price - intrinsic_value
    IN [kind |-> "results",
        S |-> S, K |-> K, T |-> T, r |-> r, sigma |-> sigma,
        option_type |-> option_type,
        call_price |-> call_price, put_price |-> put_price,
        option_price |-> option_price,
        delta |-> delta, gamma |-> gamma, theta |-> theta, vega |-> vega, rho |-> rho,
        moneyness |-> m[1], moneyness_short |-> m[2], moneyness_desc |-> m[3],
        intrinsic_value |-> intrinsic_value, time_value |-> time_value]

\* What print_results computes and prints (the amounts, before formatting).
print_results(S, K, T, r, sigma, option_type) ==
    LET call_price == black_scholes_call(S, K, T, r, sigma).value
        put_price == black_scholes_put(S, K, T, r, sigma).value
        side == IF option_type = "call" THEN "call" ELSE "put"
        delta == calculate_delta(S, K, T, r, sigma, side).value
        theta == calculate_theta(S, K, T, r, sigma, side).value
        rho == calculate_rho(S, K, T, r, sigma, side).value
        option_price == IF option_type = "call" THEN call_price ELSE put_price
        gamma == calculate_gamma(S, K, T, r, sigma).value
        vega == calculate_vega(S, K, T, r, sigma).value
        m == calculate_moneyness(S, K, option_type)
        intrinsic_value == IF option_type = "call" THEN Max(0, S - K) ELSE Max(0, K - S)
        time_value == option_price - intrinsic_value
    IN [kind |-> "results",
        S |-> S, K |-> K, T |-> T, r |-> r, sigma |-> sigma,
        option_type |-> option_type,
        call_price |-> call_price, put_price |-> put_price,
        option_price |-> option_price,
        delta |-> delta, gamma |-> gamma, theta |-> theta, vega |-> vega, rho |-> rho,
        moneyness |-> m[1], moneyness_short |-> m[2], moneyness_desc |-> m[3],
        intrinsic_value |-> intrinsic_value, time_value |-> time_value]

----------------------------------------------------------------------------
(* The pricing functions applied to one request                             *)

\* Option types a caller may pass to a pricing function.
OptionTypes == {"call", "put", "Call", "straddle"}

\* A volatility whose square is outside the float range.
HugeSigma == 2 * FloatSqrtMax

SpotValues == {Fx(0, 1), Fx(50, 1), Fx(90, 1), Fx(100, 1), Fx(120, 1)}

StrikeValues == {Fx(-5, 1), Fx(100, 1), Fx(110, 1)}

ExpiryValues == {Fx(0, 1), Fx(25, 100), Fx(1, 1)}

RateValues == {Fx(-1, 100), Fx(0, 1), Fx(5, 100)}

SigmaValues == {Fx(0, 1), Fx(20, 100), Fx(30, 100), HugeSigma}

NoCall == [fn |-> "none"]

NotShown == [kind |-> "none"]

Idle == [kind |-> "none"]

NoInput == [at |-> "none", ev |-> "none", text |-> ""]

NoLocals == [S |-> 0, K |-> 0, T |-> 0, r |-> 0, sigma |-> 0, option_type |-> "none"]

\* The command-line variables while only the pricing functions are exercised.
CliIdle ==
    /\ pc = "engine"
    /\ loc = NoLocals
    /\ errors = <<>>
    /\ out = Idle
    /\ last = NoInput

InitEngine ==
    /\ args \in [S : SpotValues, K : StrikeValues, T : ExpiryValues,
                 r : RateValues, sigma : SigmaValues]
    /\ ret = NoCall
    /\ shown = [s \in {"call", "put"} |-> NotShown]
    /\ CliIdle

Fresh == pc = "engine" /\ ret = NoCall /\ \A s \in {"call", "put"} : shown[s] = NotShown

Returned(fn, ot, v) == [fn |-> fn, option_type |-> ot, out |-> v]

ApplyCall ==
    /\ Fresh
    /\ ret' = Returned("black_scholes_call", "none",
                       black_scholes_call(args.S, args.K, args.T, args.r, args.sigma))
    /\ UNCHANGED <<args, shown, cliVars>>

ApplyPut ==
    /\ Fresh
    /\ ret' = Returned("black_scholes_put", "none",
                       black_scholes_put(args.S, args.K, args.T, args.r, args.sigma))
    /\ UNCHANGED <<args, shown, cliVars>>

ApplyDelta ==
    /\ Fresh
    /\ \E ot \in OptionTypes :
          ret' = Returned("calculate_delta", ot,
                          calculate_delta(args.S, args.K, args.T, args.r, args.sigma, ot))
    /\ UNCHANGED <<args, shown, cliVars>>

ApplyGamma ==
    /\ Fresh
    /\ ret' = Returned("calculate_gamma", "none",
                       calculate_gamma(args.S, args.K, args.T, args.r, args.sigma))
    /\ UNCHANGED <<args, shown, cliVars>>

ApplyTheta ==
    /\ Fresh
    /\ \E ot \in OptionTypes :
          ret' = Returned("calculate_theta", ot,
                          calculate_theta(args.S, args.K, args.T, args.r, args.sigma, ot))
    /\ UNCHANGED <<args, shown, cliVars>>

ApplyVega ==
    /\ Fresh
    /\ ret' = Returned("calculate_vega", "none",
                       calculate_vega(args.S, args.K, args.T, args.r, args.sigma))
    /\ UNCHANGED <<args, shown, cliVars>>

ApplyRho ==
    /\ Fresh
    /\ \E ot \in OptionTypes :
          ret' = Returned("calculate_rho", ot,
                          calculate_rho(args.S, args.K, args.T, args.r, args.sigma, ot))
    /\ UNCHANGED <<args, shown, cliVars>>

\* print_results called with the request and one of the two sides, as
\* demo_mode calls it (no validation before it).
ApplyPrintResults ==
    /\ pc = "engine"
    /\ ret = NoCall
    /\ \E ot \in {"call", "put"} :
          /\ shown[ot] = NotShown
          /\ shown' = [shown EXCEPT ![ot] =
                 print_results(args.S, args.K, args.T, args.r, args.sigma, ot)]
    /\ UNCHANGED <<args, ret, cliVars>>

NextEngine ==
    \/ ApplyCall
    \/ ApplyPut
    \/ ApplyDelta
    \/ ApplyGamma
    \/ ApplyTheta
    \/ ApplyVega
    \/ ApplyRho
    \/ ApplyPrintResults

\* The request is in the domain the pricing functions accept.
ValidArgs == ~BadParams(args.S, args.K, args.T, args.sigma)

\* The request is priced by the formula: accepted, and nothing raises.
Priced == ValidArgs /\ ~Raises(args.sigma)

----------------------------------------------------------------------------
(* INTERACTIVE MODE                                                         *)

\* What the user may type at a numeric prompt: the decimal numeral n/d.
SpotTexts == {<<0, 1>>, <<50, 1>>, <<100, 1>>, <<120, 1>>}

StrikeTexts == {<<-5, 1>>, <<100, 1>>}

ExpiryTexts == {<<0, 1>>, <<25, 100>>, <<1, 1>>}

\* Typed in percent.
RateTexts == {<<-1, 1>>, <<0, 1>>, <<5, 1>>}

\* Typed in percent; the last one is a volatility whose square overflows.
VolTexts == {<<0, 1>>, <<20, 1>>, <<(100 * HugeSigma) \div Scale, 1>>}

TypeTexts == {"call", "put", "PUT", "straddle"}

ContinueTexts == {"y", "YES", "n", ""}

\* float(text) for a numeral.
ParseFloat(text) == Fx(text[1], text[2])

\* x / 100 (the percent prompts).
Percent(x) == x \div 100

\* str.lower()
Lower(text) ==
    CASE text = "PUT" -> "put"
      [] text = "YES" -> "yes"
      [] OTHER -> text

FloatPrompts == {"spot", "strike", "expiry", "rate", "vol"}

Prompts == FloatPrompts \cup {"type", "continue"}

Typed(at, text) == [at |-> at, ev |-> "text", text |-> text]

InitInteractive ==
    /\ pc = "spot"
    /\ loc = NoLocals
    /\ errors = <<>>
    /\ out = Idle
    /\ last = NoInput
    /\ args = [S |-> 0, K |-> 0, T |-> 0, r |-> 0, sigma |-> 0]
    /\ ret = NoCall
    /\ shown = [s \in {"call", "put"} |-> NotShown]

\* S = float(input("Spot Price ($): "))
InputSpot ==
    /\ pc = "spot"
    /\ \E text \in SpotTexts :
          /\ loc' = [loc EXCEPT !.S = ParseFloat(text)]
          /\ last' = Typed("spot", text)
    /\ pc' = "strike"
    /\ out' = Idle
    /\ UNCHANGED <<errors, engineVars>>

\* K = float(input("Strike Price ($): "))
InputStrike ==
    /\ pc = "strike"
    /\ \E text \in StrikeTexts :
          /\ loc' = [loc EXCEPT !.K = ParseFloat(text)]
          /\ last' = Typed("strike", text)
    /\ pc' = "expiry"
    /\ out' = Idle
    /\ UNCHANGED <<errors, engineVars>>

\* T = float(input("Time to Expiry (years): "))
InputExpiry ==
    /\ pc = "expiry"
    /\ \E text \in ExpiryTexts :
          /\ loc' = [loc EXCEPT !.T = ParseFloat(text)]
          /\ last' = Typed("expiry", text)
    /\ pc' = "rate"
    /\ out' = Idle
    /\ UNCHANGED <<errors, engineVars>>

\* r = float(input("Risk-free Rate (%): ")) / 100
InputRate ==
    /\ pc = "rate"
    /\ \E text \in RateTexts :
          /\ loc' = [loc EXCEPT !.r = Percent(ParseFloat(text))]
          /\ last' = Typed("rate", text)
    /\ pc' = "vol"
    /\ out' = Idle
    /\ UNCHANGED <<errors, engineVars>>

\* sigma = float(input("Volatility (%): ")) / 100
InputVol ==
    /\ pc = "vol"
    /\ \E text \in VolTexts :
          /\ loc' = [loc EXCEPT !.sigma = Percent(ParseFloat(text))]
          /\ last' = Typed("vol", text)
    /\ pc' = "type"
    /\ out' = Idle
    /\ UNCHANGED <<errors, engineVars>>

\* float() of a text that is no numeral: ValueError, "Invalid input. Please
\* enter numeric values.", and the loop starts over.
InputNotNumeric ==
    /\ pc \in FloatPrompts
    /\ last' = Typed(pc, "abc")
    /\ out' = [kind |-> "invalid_input"]
    /\ pc' = "spot"
    /\ UNCHANGED <<loc, errors, engineVars>>

\* KeyboardInterrupt at a prompt: "Goodbye!" and break.
Interrupt ==
    /\ pc \in Prompts
    /\ last' = [at |-> pc, ev |-> "interrupt", text |-> ""]
    /\ out' = [kind |-> "goodbye"]
    /\ pc' = "done"
    /\ UNCHANGED <<loc, errors, engineVars>>

\* Any other exception at a prompt (EOFError: the input has ended):
\* "Error: ..." and the loop starts over.
InputFails ==
    /\ pc \in Prompts
    /\ last' = [at |-> pc, ev |-> "eof", text |-> ""]
    /\ out' = [kind |-> "error"]
    /\ pc' = "spot"
    /\ UNCHANGED <<loc, errors, engineVars>>

\* InputType without the "continue" after the validation errors.
InputType_no_continue ==
    /\ pc = "type"
    /\ \E text \in TypeTexts :
          LET lowered == Lower(text)
              option_type == IF lowered \notin {"call", "put"} THEN "call" ELSE lowered
              errs == validate_inputs(loc.S, loc.K, loc.T, loc.r, loc.sigma)
          IN /\ last' = Typed("type", text)
             /\ loc' = [loc EXCEPT !.option_type = option_type]
             /\ errors' = errs
             /\ out' = print_results(loc.S, loc.K, loc.T, loc.r, loc.sigma, option_type)
             /\ pc' = "continue"
    /\ UNCHANGED engineVars

\* The option type is read and normalised, the inputs are validated and,
\* if valid, the results are printed.
InputType ==
    /\ pc = "type"
    /\ \E text \in TypeTexts :
          LET lowered == Lower(text)
              option_type == IF lowered \notin {"call", "put"} THEN "call" ELSE lowered
              errs == validate_inputs(loc.S, loc.K, loc.T, loc.r, loc.sigma)
          IN /\ last' = Typed("type", text)
             /\ loc' = [loc EXCEPT !.option_type = option_type]
             /\ errors' = errs
             /\ IF errs # <<>>
                THEN /\ out' = [kind |-> "validation_errors", errors |-> errs]
                     /\ pc' = "spot"
                ELSE /\ out' = print_results(loc.S, loc.K, loc.T, loc.r, loc.sigma,
                                              option_type)
                     /\ pc' = "continue"
    /\ UNCHANGED engineVars

\* continue_calc = input("Calculate another option? (y/n): ").lower()
InputContinue ==
    /\ pc = "continue"
    /\ \E text \in ContinueTexts :
          /\ last' = Typed("continue", text)
          /\ pc' = IF Lower(text) \notin {"y", "yes"} THEN "done" ELSE "spot"
    /\ out' = Idle
    /\ UNCHANGED <<loc, errors, engineVars>>

NextInteractive ==
    \/ InputSpot
    \/ InputStrike
    \/ InputExpiry
    \/ InputRate
    \/ InputVol
    \/ InputNotNumeric
    \/ Interrupt
    \/ InputFails
    \/ InputType
    \/ InputContinue

----------------------------------------------------------------------------
(* The program: the interactive loop, or the pricing functions called       *)
(* directly on one request.                                                 *)

Init == InitInteractive \/ InitEngine

Next == NextInteractive \/ NextEngine

Spec == Init /\ [][Next]_vars

----------------------------------------------------------------------------
(* Properties                                                               *)

Sides == {"call", "put"}

\* The results print_results has printed: in the interactive loop, or
\* called directly.
Printed == {x \in {out, shown["call"], shown["put"]} : x.kind = "results"}

ValidRequest(x) == ~BadParams(x.S, x.K, x.T, x.sigma)

PricedRequest(x) == ValidRequest(x) /\ ~Raises(x.sigma)

SideFns == {"calculate_delta", "calculate_theta", "calculate_rho"}

\* C1 (as stated): a pricing function called with spot, strike, time to
\* expiry or volatility <= 0 yields the InvalidInput outcome, never a number.
C1_RefusedIsInvalidInput ==
    (ret.fn # "none" /\ ~ValidArgs) => ret.out = InvalidInput

\* C2 (as stated, on valid requests): the printed moneyness follows the side: a call is
\* In-the-Money with intrinsic value spot - strike when spot > strike,
\* Out-of-the-Money with no intrinsic value when spot < strike, a put the
\* other way round, At-the-Money when spot = strike; and it is ITM exactly
\* when the intrinsic value printed with it is > 0.
C2_MoneynessFollowsSide ==
    \A x \in {y \in Printed : ValidRequest(y)} :
        LET itm == IF x.option_type = "call" THEN x.S > x.K ELSE x.S < x.K
            otm == IF x.option_type = "call" THEN x.S < x.K ELSE x.S > x.K
        IN /\ itm => /\ x.moneyness = "In-the-Money"
                     /\ x.moneyness_desc = <<"intrinsic value", Abs(x.S - x.K)>>
           /\ otm => /\ x.moneyness = "Out-of-the-Money"
                     /\ x.moneyness_desc = <<"No intrinsic value">>
           /\ x.S = x.K => x.moneyness = "At-the-Money"
           /\ (x.moneyness_short = "ITM") <=> (x.intrinsic_value > 0)

\* The request typed in has been validated in the last step.
JustValidated == last.at = "type" /\ last.ev = "text"

\* C3 (as stated): a request with spot, strike, time to expiry and
\* volatility > 0 is accepted and priced whatever the sign of the rate.
C3_RateNotValidated ==
    (JustValidated /\ ValidRequest(loc)) => out.kind = "results"

\* C3 (amended): the pricing functions take the rate as given, negative
\* included (put-call parity holds with the rate as passed, when
\* print_results is called directly); validate_inputs rejects a negative
\* rate: in interactive_mode a request with spot, strike, time to expiry
\* and volatility > 0 is priced iff its rate is >= 0, and a rate < 0 alone
\* gets "Risk-free rate cannot be negative".
C3_NegativeRateRejectedByCli ==
    /\ (JustValidated /\ ValidRequest(loc)) =>
          IF loc.r >= 0
          THEN out.kind = "results" /\ out.r = loc.r
          ELSE out = [kind |-> "validation_errors",
                      errors |-> <<"Risk-free rate cannot be negative">>]
    /\ \A s \in Sides :
          (shown[s].kind = "results" /\ Priced /\ args.r < 0) =>
              /\ shown[s].r = args.r
              /\ Abs(shown[s].call_price - shown[s].put_price
                     - (args.S - Discounted(args.K, args.T, args.r))) <= Tol

\* A request with only its rate negative, rejected.
C3_Witness ==
    /\ JustValidated /\ ValidRequest(loc) /\ loc.r < 0
    /\ out.kind = "validation_errors"

\* C4 (as stated): calculate_delta, calculate_theta and calculate_rho reject
\* an option type that is neither 'call' nor 'put'.
C4_UnknownSideRejected ==
    (ret.fn \in SideFns /\ ret.option_type \notin Sides /\ Priced)
        => ret.out = InvalidInput

\* C5 (as stated, on the requests that are priced and whose rate is >= 0):
\* the time value printed is >= 0 up to rounding, for either side.
C5_TimeValueNonNegative ==
    \A x \in Printed :
        (PricedRequest(x) /\ x.r >= 0) => x.time_value >= -Tol

\* The least time value the formulas allow, without the rounding.
TimeValueFloor(x) ==
    IF x.option_type = "call"
    THEN Min(0, x.K - Discounted(x.K, x.T, x.r))
    ELSE Min(0, Discounted(x.K, x.T, x.r) - x.K)

\* C5 (amended): time value = selected-side price - intrinsic value, with
\* intrinsic max(0, spot - strike) for a call and max(0, strike - spot) for
\* a put, is never below -intrinsic; when the selected price is > 0 it is,
\* up to rounding, at least min(0, K - K*e^(-rT)) for a call and
\* min(0, K*e^(-rT) - K) for a put: >= 0 for a call with rate >= 0, but
\* negative by construction for a deep in-the-money put with a positive rate.
C5_TimeValueBound ==
    \A x \in Printed :
        ValidRequest(x) =>
            /\ x.intrinsic_value = IF x.option_type = "call"
                                   THEN Max(0, x.S - x.K) ELSE Max(0, x.K - x.S)
            /\ x.time_value = x.option_price - x.intrinsic_value
            /\ x.time_value >= -x.intrinsic_value
            /\ x.option_price > 0 => x.time_value >= TimeValueFloor(x) - Tol

\* A deep in-the-money put with a positive rate, printed with a negative
\* time value.
C5_Witness ==
    /\ shown["put"].kind = "results" /\ Priced /\ args.r > 0
    /\ shown["put"].option_price > 0
    /\ shown["put"].time_value < -Tol

\* C6 (as stated): for every valid request the call and put prices printed
\* satisfy call - put = S - K*e^(-rT) within the tolerance.
C6_PutCallParity ==
    \A x \in Printed :
        ValidRequest(x) =>
            Abs(x.call_price - x.put_price - (x.S - Discounted(x.K, x.T, x.r))) <= Tol

\* Put-call parity on the requests that are priced by the formula.
ParityWhenPriced ==
    \A x \in Printed :
        PricedRequest(x) =>
            Abs(x.call_price - x.put_price - (x.S - Discounted(x.K, x.T, x.r))) <= Tol

\* C7: black_scholes_call and black_scholes_put return a number >= 0 for
\* every request, refused or raising ones included.
C7_NonNegative ==
    /\ ret.fn \in {"black_scholes_call", "black_scholes_put"} =>
          ret.out.kind = "float" /\ ret.out.value >= 0
    /\ \A x \in Printed : x.call_price >= 0 /\ x.put_price >= 0

\* A deep out-of-the-money call priced by the formula, whose price is zero.
C7_Witness ==
    /\ ret.fn = "black_scholes_call" /\ Priced
    /\ args.S < args.K /\ ret.out = Float(0)

\* C8 (as stated): for every valid request Delta is in [0, 1] for a call and
\* in [-1, 0] for a put, and the put Delta is the call Delta minus 1.
C8_DeltaBounds ==
    ValidArgs =>
        /\ shown["call"].kind = "results" =>
              shown["call"].delta >= 0 /\ shown["call"].delta <= Scale
        /\ shown["put"].kind = "results" =>
              shown["put"].delta >= -Scale /\ shown["put"].delta <= 0
        /\ (shown["call"].kind = "results" /\ shown["put"].kind = "results") =>
              shown["put"].delta = shown["call"].delta - Scale

\* The Delta bounds and relation on the requests that are priced by the
\* formula.
DeltaWhenPriced ==
    Priced =>
        /\ shown["call"].kind = "results" =>
              shown["call"].delta >= 0 /\ shown["call"].delta <= Scale
        /\ shown["put"].kind = "results" =>
              shown["put"].delta >= -Scale /\ shown["put"].delta <= 0
        /\ (shown["call"].kind = "results" /\ shown["put"].kind = "results") =>
              shown["put"].delta = shown["call"].delta - Scale

\* C9: two results for the same spot, strike, time to expiry, rate and
\* volatility that differ in the side show the same Gamma and the same Vega.
C9_GammaVegaSideIndependent ==
    \A x, y \in Printed :
        (x.S = y.S /\ x.K = y.K /\ x.T = y.T /\ x.r = y.r /\ x.sigma = y.sigma)
            => x.gamma = y.gamma /\ x.vega = y.vega

\* Both sides of one priced request printed, with different Deltas.
C9_Witness ==
    /\ shown["call"].kind = "results" /\ shown["put"].kind = "results" /\ Priced
    /\ shown["call"].gamma > 0 /\ shown["call"].vega > 0
    /\ shown["call"].delta # shown["put"].delta

\* C10: in interactive_mode results are printed only for the request just
\* entered and only when validate_inputs returned no errors for it, and the
\* loop then asks whether to continue; after validation errors, a
\* non-numeric input or a failed input nothing is priced and the loop is
\* back at the first prompt; the loop has ended only on an answer other
\* than 'y'/'yes' to the continue question or on an interrupt.
C10_LoopDiscipline ==
    /\ out.kind = "results" =>
          /\ JustValidated /\ pc = "continue"
          /\ errors = <<>>
          /\ validate_inputs(loc.S, loc.K, loc.T, loc.r, loc.sigma) = <<>>
          /\ out.S = loc.S /\ out.K = loc.K /\ out.T = loc.T
          /\ out.r = loc.r /\ out.sigma = loc.sigma
          /\ out.option_type = loc.option_type
    /\ (JustValidated /\ errors # <<>>) =>
          out = [kind |-> "validation_errors", errors |-> errors] /\ pc = "spot"
    /\ out.kind \in {"validation_errors", "invalid_input", "error"} => pc = "spot"
    /\ pc = "done" =>
          \/ last.ev = "interrupt"
          \/ /\ last.at = "continue" /\ last.ev = "text"
             /\ Lower(last.text) \notin {"y", "yes"}
    /\ pc \in Prompts \cup {"done", "engine"}

\* Results printed after a request passed validation.
C10_Witness ==
    /\ out.kind = "results" /\ pc = "continue" /\ errors = <<>>
    /\ last = Typed("type", "PUT") /\ loc.option_type = "put"
    /\ PricedRequest(loc) /\ out.option_price > 0

====
